---- MODULE Spec2Model ----
(***************************************************************************)
(* Beam analysis (js/beam-analysis.js) and the x-value samplers of the     *)
(* analysis plotter (js/analysis-plotter.js).                              *)
(*                                                                         *)
(* Numbers are exact rationals <<n, d>> in lowest terms with d >= 0.  The  *)
(* results of a division by zero are kept as JavaScript produces them:     *)
(* <<1, 0>> is Infinity, <<-1, 0>> is -Infinity and <<0, 0>> is NaN.       *)
(* Rounding of IEEE doubles is not modelled.                               *)
(***************************************************************************)
EXTENDS Integers, Sequences, FiniteSets, TLC

(***************************************************************************)
(* Bounds of the explored inputs.                                          *)
(***************************************************************************)
\* span lengths are the integers 1..MaxSpan (secondary span: 0..MaxSpan)
MaxSpan == 2
\* loads are the integers 0..MaxLoad
MaxLoad == 1
\* explicit segment counts are 1..MaxSegments
MaxSegments == 5
\* evaluation points are the multiples of 1/XDen from -1 to totalLength + 1
XDen == 2

(***************************************************************************)
(* Number arithmetic.                                                      *)
(***************************************************************************)
Abs(n) == IF n < 0 THEN -n ELSE n

Sign(n) == IF n < 0 THEN -1 ELSE IF n > 0 THEN 1 ELSE 0

RECURSIVE GCD(_, _)
GCD(a, b) == IF b = 0 THEN a ELSE GCD(b, a % b)

\* n / d in lowest terms, for d >= 0
Norm(n, d) ==
  IF d = 0 THEN <<Sign(n), 0>>
  ELSE LET g == GCD(Abs(n), d) IN <<n \div g, d \div g>>

R(n) == <<n, 1>>

NaN == <<0, 0>>

IsNaN(a) == a = NaN

IsFinite(a) == a[2] # 0

RNeg(a) == <<-a[1], a[2]>>

RAdd(a, b) ==
  IF IsNaN(a) \/ IsNaN(b) THEN NaN
  ELSE IF a[2] = 0 /\ b[2] = 0 THEN (IF a[1] = b[1] THEN a ELSE NaN)
  ELSE IF a[2] = 0 THEN a
  ELSE IF b[2] = 0 THEN b
  ELSE LET g == GCD(a[2], b[2])
       IN Norm(a[1] * (b[2] \div g) + b[1] * (a[2] \div g), (a[2] \div g) * b[2])

RSub(a, b) == RAdd(a, RNeg(b))

RMul(a, b) ==
  IF a[2] = 0 \/ b[2] = 0 THEN Norm(a[1] * b[1], 0)
  ELSE LET g1 == GCD(Abs(a[1]), b[2])
           g2 == GCD(Abs(b[1]), a[2])
       IN Norm((a[1] \div g1) * (b[1] \div g2), (a[2] \div g2) * (b[2] \div g1))

RInv(b) == IF b[1] < 0 THEN <<-b[2], -b[1]>> ELSE <<b[2], b[1]>>

RDiv(a, b) ==
  IF IsNaN(a) \/ IsNaN(b) THEN NaN
  ELSE IF a[2] = 0 /\ b[2] = 0 THEN NaN
  ELSE IF a[1] = 0 /\ b[1] = 0 THEN NaN
  ELSE IF b[1] = 0 THEN <<Sign(a[1]), 0>>
  ELSE RMul(a, RInv(b))

\* a < b; every comparison with NaN is false
RLt(a, b) ==
  IF IsNaN(a) \/ IsNaN(b) THEN FALSE
  ELSE IF a[2] = 0 /\ b[2] = 0 THEN a[1] < b[1]
  ELSE a[1] * b[2] < b[1] * a[2]

RGt(a, b) == RLt(b, a)

RLe(a, b) == ~IsNaN(a) /\ ~IsNaN(b) /\ ~RLt(b, a)

\* a === b on numbers
REq(a, b) == ~IsNaN(a) /\ a = b

\* Math.pow(a, 2) and Math.pow(a, 3)
Pow2(a) == RMul(a, a)

Pow3(a) == RMul(a, RMul(a, a))

(***************************************************************************)
(* Data types.                                                             *)
(***************************************************************************)
\* new Material(name, {EI, j2}): the two properties the formulas read
Material(EI, j2) == [EI |-> EI, j2 |-> j2]

\* new Beam(primarySpan, secondarySpan, material)
Beam(primarySpan, secondarySpan, material) ==
  [primarySpan |-> primarySpan, secondarySpan |-> secondarySpan, material |-> material]

\* what a call produces: a returned {x, y} or a thrown error
Return(x, y) == [kind |-> "return", x |-> x, y |-> y]

Throw(name, message) == [kind |-> "throw", name |-> name, message |-> message]

\* IsPrimarySpanArg with the parameter's default turned to true
IsPrimarySpanArgDefaultTrue(args) == IF Len(args) >= 2 THEN args[2] ELSE TRUE

\* the isPrimarySpan parameter of function (x, isPrimarySpan = false): the second
\* argument when the call passes one, the default otherwise
IsPrimarySpanArg(args) == IF Len(args) >= 2 THEN args[2] ELSE FALSE

(***************************************************************************)
(* BeamAnalysis.analyzer.simplySupported                                   *)
(***************************************************************************)
\* Math.pow(1000, 3)
ThousandCubed == Pow3(R(1000))

\* the domain check that opens each simply-supported equation:
\* x > beam.primarySpan || x < 0
SimplyInvalidX(x, beam) == RGt(x, beam.primarySpan) \/ RLt(x, R(0))

\* getDeflectionEquation(beam, load): what the returned function closes over
\* (the beam itself is held by reference and read at each evaluation)
simplySupportedGetDeflectionEquation(beam, load) ==
  [fn |-> "simplySupported.deflection",
   load |-> load,
   j2 |-> beam.material.j2,
   eiInKilos |-> RDiv(beam.material.EI, ThousandCubed)]

\* the function returned by simplySupported.getDeflectionEquation
simplySupportedDeflection(eq, beam, args) ==
  LET x == args[1] IN
  IF SimplyInvalidX(x, beam) THEN Throw("Error", "Invalid x value")
  ELSE
    LET xSquared == Pow2(x)
        xCubed == Pow3(x)
        lengthCubed == Pow3(beam.primarySpan)
        deflection ==
          RMul(RMul(RMul(RMul(R(-1),
                              RDiv(RMul(eq.load, x), RMul(R(24), eq.eiInKilos))),
                         RAdd(RSub(lengthCubed,
                                   RMul(RMul(R(2), beam.primarySpan), xSquared)),
                              xCubed)),
                    eq.j2),
               R(1000))
    IN Return(x, deflection)

simplySupportedGetBendingMomentEquation(beam, load) ==
  [fn |-> "simplySupported.bendingMoment", load |-> load]

\* simplySupportedBendingMoment taking the length of both spans for L
simplySupportedBendingMomentBothSpans(eq, beam, args) ==
  LET x == args[1] IN
  IF SimplyInvalidX(x, beam) THEN Throw("Error", "Invalid x value")
  ELSE
    LET bendingMoment ==
          RMul(RMul(RDiv(RMul(eq.load, x), R(2)),
                    RSub(RAdd(beam.primarySpan, beam.secondarySpan), x)), R(-1))
    IN Return(x, bendingMoment)

\* simplySupportedBendingMoment without the final * -1
simplySupportedBendingMomentNoSign(eq, beam, args) ==
  LET x == args[1] IN
  IF SimplyInvalidX(x, beam) THEN Throw("Error", "Invalid x value")
  ELSE Return(x, RMul(RDiv(RMul(eq.load, x), R(2)), RSub(beam.primarySpan, x)))

\* the function returned by simplySupported.getBendingMomentEquation
simplySupportedBendingMoment(eq, beam, args) ==
  LET x == args[1] IN
  IF SimplyInvalidX(x, beam) THEN Throw("Error", "Invalid x value")
  ELSE
    LET bendingMoment ==
          RMul(RMul(RDiv(RMul(eq.load, x), R(2)), RSub(beam.primarySpan, x)), R(-1))
    IN Return(x, bendingMoment)

simplySupportedGetShearForceEquation(beam, load) ==
  [fn |-> "simplySupported.shearForce", load |-> load]

\* simplySupportedShearForce measuring from the full span instead of its half
simplySupportedShearForceFullSpan(eq, beam, args) ==
  LET x == args[1] IN
  IF SimplyInvalidX(x, beam) THEN Throw("Error", "Invalid x value")
  ELSE Return(x, RMul(eq.load, RSub(beam.primarySpan, x)))

\* the function returned by simplySupported.getShearForceEquation
simplySupportedShearForce(eq, beam, args) ==
  LET x == args[1] IN
  IF SimplyInvalidX(x, beam) THEN Throw("Error", "Invalid x value")
  ELSE
    LET shearForce == RMul(eq.load, RSub(RDiv(beam.primarySpan, R(2)), x))
    IN Return(x, shearForce)

(***************************************************************************)
(* BeamAnalysis.analyzer.twoSpanUnequal                                    *)
(***************************************************************************)
\* getM1 with the precedence of the formula in its comment:
\* -1 * ((w * L2^3) + (w * L1^3) / (8 * (L1 + L2)))
getM1AsCommented(beam, load) ==
  LET primaryLengthCubed == Pow3(beam.primarySpan)
      secondaryLengthCubed == Pow3(beam.secondarySpan)
      totalLength == RAdd(beam.primarySpan, beam.secondarySpan)
  IN RMul(R(-1), RAdd(RMul(load, secondaryLengthCubed),
                      RDiv(RMul(load, primaryLengthCubed), RMul(R(8), totalLength))))

getM1(beam, load) ==
  LET primaryLengthCubed == Pow3(beam.primarySpan)
      secondaryLengthCubed == Pow3(beam.secondarySpan)
      totalLength == RAdd(beam.primarySpan, beam.secondarySpan)
  IN RNeg(RDiv(RAdd(RMul(load, secondaryLengthCubed), RMul(load, primaryLengthCubed)),
               RMul(R(8), totalLength)))

getR1(beam, load, m1) ==
  RAdd(RDiv(m1, beam.primarySpan), RDiv(RMul(load, beam.primarySpan), R(2)))

\* getR3 dividing and multiplying by the primary span, as getR1 does
getR3OnPrimarySpan(beam, load, m1) ==
  RAdd(RDiv(m1, beam.primarySpan), RDiv(RMul(load, beam.primarySpan), R(2)))

getR3(beam, load, m1) ==
  RAdd(RDiv(m1, beam.secondarySpan), RDiv(RMul(load, beam.secondarySpan), R(2)))

\* getR2 adding R3 instead of subtracting it
getR2PlusR3(beam, load, r1, r3) ==
  RAdd(RSub(RAdd(RMul(load, beam.primarySpan), RMul(load, beam.secondarySpan)), r1), r3)

\* getR2 that leaves the load on the secondary span out
getR2PrimaryOnly(beam, load, r1, r3) ==
  RSub(RSub(RMul(load, beam.primarySpan), r1), r3)

getR2(beam, load, r1, r3) ==
  RSub(RSub(RAdd(RMul(load, beam.primarySpan), RMul(load, beam.secondarySpan)), r1), r3)

\* TwoSpanInvalidX without the upper limit
TwoSpanInvalidXNoUpper(x, totalLength) == RLt(x, R(0))

\* TwoSpanInvalidX that rejects the end of the beam as well (x >= totalLength)
TwoSpanInvalidXAtEnd(x, totalLength) == RLt(x, R(0)) \/ ~RLt(x, totalLength)

\* the domain check that opens each two-span equation: x < 0 || x > totalLength
TwoSpanInvalidX(x, totalLength) == RLt(x, R(0)) \/ RGt(x, totalLength)

twoSpanUnequalGetDeflectionEquation(beam, load) ==
  LET m1 == getM1(beam, load)
      r1 == getR1(beam, load, m1)
      r3 == getR3(beam, load, m1)
      r2 == getR2(beam, load, r1, r3)
  IN [fn |-> "twoSpanUnequal.deflection",
      load |-> load,
      totalLength |-> RAdd(beam.primarySpan, beam.secondarySpan),
      m1 |-> m1, r1 |-> r1, r3 |-> r3, r2 |-> r2,
      EI |-> beam.material.EI,
      j2 |-> beam.material.j2,
      primarySpanSquared |-> Pow2(beam.primarySpan),
      primarySpanCubed |-> Pow3(beam.primarySpan)]

\* DeflectionLeftSpan adding w*x^3 instead of subtracting it
DeflectionLeftSpanPlusLoad(eq, x) ==
  LET xSquared == Pow2(x)
      xCubed == Pow3(x)
      eiInKilos == RDiv(eq.EI, ThousandCubed)
  IN RMul(RMul(RMul(RDiv(x, RMul(R(24), eiInKilos)),
                    RSub(RAdd(RAdd(RMul(RMul(R(4), eq.r1), xSquared),
                                   RMul(eq.load, xCubed)),
                              RMul(eq.load, eq.primarySpanCubed)),
                         RMul(RMul(R(4), eq.r1), eq.primarySpanSquared))),
               R(1000)),
          eq.j2)

\* the left span branch of the deflection (x <= beam.primarySpan)
DeflectionLeftSpan(eq, x) ==
  LET xSquared == Pow2(x)
      xCubed == Pow3(x)
      eiInKilos == RDiv(eq.EI, ThousandCubed)
  IN RMul(RMul(RMul(RDiv(x, RMul(R(24), eiInKilos)),
                    RSub(RAdd(RSub(RMul(RMul(R(4), eq.r1), xSquared),
                                   RMul(eq.load, xCubed)),
                              RMul(eq.load, eq.primarySpanCubed)),
                         RMul(RMul(R(4), eq.r1), eq.primarySpanSquared))),
               R(1000)),
          eq.j2)

\* DeflectionRightSpan without part 3, (R2 * L1^3) / 6
DeflectionRightSpanNoP3(eq, beam, x) ==
  LET xSquared == Pow2(x)
      xCubed == Pow3(x)
      eiInKilos == RDiv(eq.EI, ThousandCubed)
      p1 == RMul(RDiv(RMul(eq.r1, x), R(6)), RSub(xSquared, eq.primarySpanSquared))
      p2 == RMul(RDiv(RMul(eq.r2, x), R(6)),
                 RAdd(RSub(xSquared, RMul(RMul(R(3), beam.primarySpan), x)),
                      RMul(R(3), eq.primarySpanSquared)))
      p3 == R(0)
      p4 == RMul(RDiv(RMul(eq.load, x), R(24)), RSub(xCubed, eq.primarySpanCubed))
      result ==
        RMul(RMul(RDiv(RMul(RSub(RSub(RAdd(p1, p2), p3), p4), R(1)), eiInKilos),
                  R(1000)),
             eq.j2)
  IN [p1 |-> p1, p2 |-> p2, p3 |-> p3, p4 |-> p4, result |-> result]

\* the right span branch of the deflection: the values p1..p4 and the result,
\* which are also the object the branch passes to console.log
DeflectionRightSpan(eq, beam, x) ==
  LET xSquared == Pow2(x)
      xCubed == Pow3(x)
      eiInKilos == RDiv(eq.EI, ThousandCubed)
      p1 == RMul(RDiv(RMul(eq.r1, x), R(6)), RSub(xSquared, eq.primarySpanSquared))
      p2 == RMul(RDiv(RMul(eq.r2, x), R(6)),
                 RAdd(RSub(xSquared, RMul(RMul(R(3), beam.primarySpan), x)),
                      RMul(R(3), eq.primarySpanSquared)))
      p3 == RDiv(RMul(eq.r2, eq.primarySpanCubed), R(6))
      p4 == RMul(RDiv(RMul(eq.load, x), R(24)), RSub(xCubed, eq.primarySpanCubed))
      result ==
        RMul(RMul(RDiv(RMul(RSub(RSub(RAdd(p1, p2), p3), p4), R(1)), eiInKilos),
                  R(1000)),
             eq.j2)
  IN [p1 |-> p1, p2 |-> p2, p3 |-> p3, p4 |-> p4, result |-> result]

\* the function returned by twoSpanUnequal.getDeflectionEquation
twoSpanUnequalDeflection(eq, beam, args) ==
  LET x == args[1] IN
  IF TwoSpanInvalidX(x, eq.totalLength)
  THEN Throw("Error", "Invalid x value. Must be between 0 and total length")
  ELSE IF REq(x, R(0)) THEN Return(x, R(0))
  ELSE
    IF RLe(x, beam.primarySpan) THEN Return(x, DeflectionLeftSpan(eq, x))
    ELSE IF RGt(x, beam.primarySpan)
    THEN Return(x, DeflectionRightSpan(eq, beam, x).result)
    ELSE Throw("Error", "Invalid condition on x")

\* what a call of that function writes with console.log: the object of the
\* right span branch, nothing in the other branches
twoSpanUnequalDeflectionLog(eq, beam, args) ==
  LET x == args[1] IN
  IF TwoSpanInvalidX(x, eq.totalLength) \/ REq(x, R(0)) \/ RLe(x, beam.primarySpan)
  THEN <<>>
  ELSE IF RGt(x, beam.primarySpan) THEN <<DeflectionRightSpan(eq, beam, x)>>
  ELSE <<>>

twoSpanUnequalGetBendingMomentEquation(beam, load) ==
  LET m1 == getM1(beam, load)
      r1 == getR1(beam, load, m1)
      r3 == getR3(beam, load, m1)
      r2 == getR2(beam, load, r1, r3)
  IN [fn |-> "twoSpanUnequal.bendingMoment",
      load |-> load,
      totalLength |-> RAdd(beam.primarySpan, beam.secondarySpan),
      m1 |-> m1, r1 |-> r1, r3 |-> r3, r2 |-> r2,
      primarySpanSquared |-> Pow2(beam.primarySpan)]

\* BendingLeftSpan without the factor 0.5
BendingLeftSpanNoHalf(eq, x) ==
  RMul(R(-1), RSub(RMul(eq.r1, x), RMul(eq.load, Pow2(x))))

\* left span formula
BendingLeftSpan(eq, x) ==
  RMul(R(-1), RSub(RMul(eq.r1, x), RMul(RMul(eq.load, Pow2(x)), <<1, 2>>)))

\* BendingTransition without the factor 0.5
BendingTransitionNoHalf(eq, beam) ==
  RMul(R(-1), RSub(RMul(eq.r1, beam.primarySpan), RMul(eq.load, eq.primarySpanSquared)))

\* transition point
BendingTransition(eq, beam) ==
  RMul(R(-1), RSub(RMul(eq.r1, beam.primarySpan),
                   RMul(<<1, 2>>, RMul(eq.load, eq.primarySpanSquared))))

\* right span formula
BendingRightSpan(eq, beam, x) ==
  RMul(R(-1), RSub(RAdd(RMul(eq.r1, x), RMul(eq.r2, RSub(x, beam.primarySpan))),
                   RMul(RMul(<<1, 2>>, eq.load), Pow2(x))))

\* the function returned by twoSpanUnequal.getBendingMomentEquation
twoSpanUnequalBendingMoment(eq, beam, args) ==
  LET x == args[1] IN
  IF TwoSpanInvalidX(x, eq.totalLength)
  THEN Throw("Error", "Invalid x value. Must be between 0 and total length")
  ELSE IF REq(x, R(0)) \/ REq(x, eq.totalLength) THEN Return(x, R(0))
  ELSE IF RLt(x, beam.primarySpan) THEN Return(x, BendingLeftSpan(eq, x))
  ELSE IF REq(x, beam.primarySpan) THEN Return(x, BendingTransition(eq, beam))
  ELSE IF RGt(x, beam.primarySpan) THEN Return(x, BendingRightSpan(eq, beam, x))
  ELSE Throw("Error", "Invalid condition on x")

twoSpanUnequalGetShearForceEquation(beam, load) ==
  LET m1 == getM1(beam, load)
      r1 == getR1(beam, load, m1)
      r3 == getR3(beam, load, m1)
      r2 == getR2(beam, load, r1, r3)
  IN [fn |-> "twoSpanUnequal.shearForce",
      load |-> load,
      totalLength |-> RAdd(beam.primarySpan, beam.secondarySpan),
      m1 |-> m1, r1 |-> r1, r3 |-> r3, r2 |-> r2]

\* use left span formula
ShearLeftSpan(eq, x) == RSub(eq.r1, RMul(eq.load, x))

\* ShearRightSpan without the interior reaction R2
ShearRightSpanNoR2(eq, x) == RSub(eq.r1, RMul(eq.load, x))

\* use right span formula
ShearRightSpan(eq, x) == RSub(RAdd(eq.r1, eq.r2), RMul(eq.load, x))

\* use approaching left span formula
ShearApproachingLeft(eq, beam) == RSub(eq.r1, RMul(eq.load, beam.primarySpan))

\* ShearApproachingRight as a copy of the left span formula
ShearApproachingRightAsLeft(eq, beam) == RSub(eq.r1, RMul(eq.load, beam.primarySpan))

\* use approaching right span formula
ShearApproachingRight(eq, beam) ==
  RSub(RAdd(eq.r1, eq.r2), RMul(eq.load, beam.primarySpan))

\* twoSpanUnequalShearForce that computes the reactions and the total length
\* from the beam when it is called
twoSpanUnequalShearForceRecomputed(eq, beam, args) ==
  LET x == args[1]
      isPrimarySpan == IsPrimarySpanArg(args)
      now == twoSpanUnequalGetShearForceEquation(beam, eq.load)
  IN
  IF TwoSpanInvalidX(x, now.totalLength)
  THEN Throw("Error", "Invalid x value. Must be between 0 and total length")
  ELSE IF REq(x, R(0)) THEN Return(x, now.r1)
  ELSE IF REq(x, now.totalLength)
  THEN Return(x, RSub(RAdd(now.r1, now.r2), RMul(now.load, now.totalLength)))
  ELSE IF RGt(x, R(0)) /\ RLt(x, beam.primarySpan)
  THEN Return(x, ShearLeftSpan(now, x))
  ELSE IF RGt(x, beam.primarySpan) /\ RLt(x, now.totalLength)
  THEN Return(x, ShearRightSpan(now, x))
  ELSE IF REq(x, beam.primarySpan) /\ isPrimarySpan
  THEN Return(x, ShearApproachingLeft(now, beam))
  ELSE IF REq(x, beam.primarySpan) /\ ~isPrimarySpan
  THEN Return(x, ShearApproachingRight(now, beam))
  ELSE Throw("Error", "Invalid condition on x")

\* twoSpanUnequalShearForce that reads the primary span the beam had when the
\* equation was created
twoSpanUnequalShearForceSnapshot(eq, beam, args) ==
  LET x == args[1]
      isPrimarySpan == IsPrimarySpanArg(args)
      primarySpan == RSub(eq.totalLength, beam.secondarySpan)
  IN
  IF TwoSpanInvalidX(x, eq.totalLength)
  THEN Throw("Error", "Invalid x value. Must be between 0 and total length")
  ELSE IF REq(x, R(0)) THEN Return(x, eq.r1)
  ELSE IF REq(x, eq.totalLength)
  THEN Return(x, RSub(RAdd(eq.r1, eq.r2), RMul(eq.load, eq.totalLength)))
  ELSE IF RGt(x, R(0)) /\ RLt(x, primarySpan)
  THEN Return(x, ShearLeftSpan(eq, x))
  ELSE IF RGt(x, primarySpan) /\ RLt(x, eq.totalLength)
  THEN Return(x, ShearRightSpan(eq, x))
  ELSE IF REq(x, primarySpan) /\ isPrimarySpan
  THEN Return(x, RSub(eq.r1, RMul(eq.load, primarySpan)))
  ELSE IF REq(x, primarySpan) /\ ~isPrimarySpan
  THEN Return(x, RSub(RAdd(eq.r1, eq.r2), RMul(eq.load, primarySpan)))
  ELSE Throw("Error", "Invalid condition on x")

\* the function returned by twoSpanUnequal.getShearForceEquation
twoSpanUnequalShearForce(eq, beam, args) ==
  LET x == args[1]
      isPrimarySpan == IsPrimarySpanArg(args)
  IN
  IF TwoSpanInvalidX(x, eq.totalLength)
  THEN Throw("Error", "Invalid x value. Must be between 0 and total length")
  ELSE IF REq(x, R(0)) THEN Return(x, eq.r1)
  ELSE IF REq(x, eq.totalLength)
  THEN Return(x, RSub(RAdd(eq.r1, eq.r2), RMul(eq.load, eq.totalLength)))
  ELSE IF RGt(x, R(0)) /\ RLt(x, beam.primarySpan)
  THEN Return(x, ShearLeftSpan(eq, x))
  ELSE IF RGt(x, beam.primarySpan) /\ RLt(x, eq.totalLength)
  THEN Return(x, ShearRightSpan(eq, x))
  ELSE IF REq(x, beam.primarySpan) /\ isPrimarySpan
  THEN Return(x, ShearApproachingLeft(eq, beam))
  ELSE IF REq(x, beam.primarySpan) /\ ~isPrimarySpan
  THEN Return(x, ShearApproachingRight(eq, beam))
  ELSE Throw("Error", "Invalid condition on x")

\* calling an equation function: equation(...args)
Call(eq, beam, args) ==
  CASE eq.fn = "simplySupported.deflection" -> simplySupportedDeflection(eq, beam, args)
    [] eq.fn = "simplySupported.bendingMoment" -> simplySupportedBendingMoment(eq, beam, args)
    [] eq.fn = "simplySupported.shearForce" -> simplySupportedShearForce(eq, beam, args)
    [] eq.fn = "twoSpanUnequal.deflection" -> twoSpanUnequalDeflection(eq, beam, args)
    [] eq.fn = "twoSpanUnequal.bendingMoment" -> twoSpanUnequalBendingMoment(eq, beam, args)
    [] eq.fn = "twoSpanUnequal.shearForce" -> twoSpanUnequalShearForce(eq, beam, args)

\* what calling an equation function writes with console.log
CallLog(eq, beam, args) ==
  IF eq.fn = "twoSpanUnequal.deflection" THEN twoSpanUnequalDeflectionLog(eq, beam, args)
  ELSE <<>>

(***************************************************************************)
(* BeamAnalysis: the analyzer registry.                                    *)
(***************************************************************************)
\* property names every object literal inherits from Object.prototype
ObjectPrototypeKeys ==
  {"constructor", "toString", "valueOf", "hasOwnProperty", "__proto__"}

\* this.analyzer as the constructor builds it: own key -> analyzer instance
NewAnalyzer ==
  [c \in {"simply-supported", "two-span-unequal"} |->
     IF c = "simply-supported" THEN "simplySupported" ELSE "twoSpanUnequal"]

\* this.options as the constructor builds it
NewOptions == [condition |-> "simply-supported"]

\* this.analyzer[condition]: the own property, else the inherited one, else undefined
Lookup(registry, condition) ==
  IF condition \in DOMAIN registry THEN registry[condition]
  ELSE IF condition \in ObjectPrototypeKeys THEN "Object.prototype." \o condition
  ELSE "undefined"

\* the value is an analyzer instance, which has the three get...Equation methods
IsAnalyzer(a) == a \in {"simplySupported", "twoSpanUnequal"}

\* AnalysisResult reporting the registry's default condition, not the argument
AnalysisResultDefaultCondition(condition, beam, load, equation) ==
  [kind |-> "return", condition |-> NewOptions.condition, beam |-> beam, load |-> load,
   equation |-> equation]

AnalysisResult(condition, beam, load, equation) ==
  [kind |-> "return", condition |-> condition, beam |-> beam, load |-> load,
   equation |-> equation]

getDeflection(registry, beam, load, condition) ==
  LET a == Lookup(registry, condition) IN
  IF a # "undefined" THEN
    IF ~IsAnalyzer(a)
    THEN Throw("TypeError", "analyzer.getDeflectionEquation is not a function")
    ELSE AnalysisResult(condition, beam, load,
           IF a = "simplySupported" THEN simplySupportedGetDeflectionEquation(beam, load)
           ELSE twoSpanUnequalGetDeflectionEquation(beam, load))
  ELSE Throw("Error", "Invalid condition")

getBendingMoment(registry, beam, load, condition) ==
  LET a == Lookup(registry, condition) IN
  IF a # "undefined" THEN
    IF ~IsAnalyzer(a)
    THEN Throw("TypeError", "analyzer.getBendingMomentEquation is not a function")
    ELSE AnalysisResult(condition, beam, load,
           IF a = "simplySupported" THEN simplySupportedGetBendingMomentEquation(beam, load)
           ELSE twoSpanUnequalGetBendingMomentEquation(beam, load))
  ELSE Throw("Error", "Invalid condition")

getShearForce(registry, beam, load, condition) ==
  LET a == Lookup(registry, condition) IN
  IF a # "undefined" THEN
    IF ~IsAnalyzer(a)
    THEN Throw("TypeError", "analyzer.getShearForceEquation is not a function")
    ELSE AnalysisResult(condition, beam, load,
           IF a = "simplySupported" THEN simplySupportedGetShearForceEquation(beam, load)
           ELSE twoSpanUnequalGetShearForceEquation(beam, load))
  ELSE Throw("Error", "Invalid condition")

(***************************************************************************)
(* AnalysisPlotter: the x-value samplers.  A call is a frame of the        *)
(* function's locals; each step runs one iteration of its for loop.        *)
(***************************************************************************)
\* the default of the segmentSize parameter
DefaultSegmentSize == 10

\* the segmentSize parameter of (beam, segmentSize = 10)
SegmentSizeArg(a) == IF Len(a) >= 1 THEN a[1] ELSE R(DefaultSegmentSize)

XValue(value, isPrimarySpan) == [value |-> value, isPrimarySpan |-> isPrimarySpan]

\* xValues[i - 1]?.value || 0, for the JavaScript index i - 1
\* PreviousX reading xValues[i - 1].value: the sample before the previous one
PreviousXOffByOne(xValues, i) ==
  IF i >= 2 /\ i - 1 <= Len(xValues)
  THEN (IF IsNaN(xValues[i - 1].value) THEN R(0) ELSE xValues[i - 1].value)
  ELSE R(0)

PreviousX(xValues, i) ==
  IF i >= 1 /\ i <= Len(xValues)
  THEN (IF IsNaN(xValues[i].value) THEN R(0) ELSE xValues[i].value)
  ELSE R(0)

\* getSimplyXValues(beam, segmentSize) up to the first test of the loop condition
getSimplyXValuesEnter(b, a) ==
  LET totalLength == b.primarySpan IN
  [fn |-> "getSimplyXValues", pc |-> "loop",
   xValues |-> <<>>,
   totalLength |-> totalLength,
   perSegmentLength |-> RDiv(totalLength, SegmentSizeArg(a)),
   x |-> R(0), i |-> 0]

\* getSimplyXValuesBody without the i === 0 case: the first sample is one step in
getSimplyXValuesBodyNoFirst(f) ==
  LET previousX == PreviousX(f.xValues, f.i)
      x1 == RAdd(previousX, f.perSegmentLength)
      x2 == IF RGt(x1, f.totalLength) THEN f.totalLength ELSE x1
  IN [f EXCEPT !.x = x2, !.xValues = Append(@, XValue(x2, TRUE)), !.i = @ + 1]

\* getSimplyXValuesBody that steps from the running x, which the i === 0 case
\* has not set, by two segment lengths at i = 1
getSimplyXValuesBodyLongFirstStep(f) ==
  IF f.i = 0
  THEN [f EXCEPT !.xValues = Append(@, XValue(R(0), TRUE)), !.i = @ + 1]
  ELSE
    LET previousX == PreviousX(f.xValues, f.i)
        x1 == IF f.i = 1 THEN RAdd(RAdd(previousX, f.perSegmentLength), f.perSegmentLength)
              ELSE RAdd(previousX, f.perSegmentLength)
        x2 == IF RGt(x1, f.totalLength) THEN f.totalLength ELSE x1
    IN [f EXCEPT !.x = x2, !.xValues = Append(@, XValue(x2, TRUE)), !.i = @ + 1]

\* one iteration of the loop of getSimplyXValues, with its i++
getSimplyXValuesBody(f) ==
  IF f.i = 0
  THEN [f EXCEPT !.xValues = Append(@, XValue(R(0), TRUE)), !.i = @ + 1]
  ELSE
    LET previousX == PreviousX(f.xValues, f.i)
        x1 == RAdd(previousX, f.perSegmentLength)
        x2 == IF RGt(x1, f.totalLength) THEN f.totalLength ELSE x1
    IN [f EXCEPT !.x = x2, !.xValues = Append(@, XValue(x2, TRUE)), !.i = @ + 1]

\* getTwoSpanUnequalXValuesEnter with isOnSecondarySpan initialised to true
getTwoSpanUnequalXValuesEnterOnSecondary(b, a) ==
  LET totalLength == RAdd(b.primarySpan, b.secondarySpan) IN
  [fn |-> "getTwoSpanUnequalXValues", pc |-> "loop",
   xValues |-> <<>>,
   totalLength |-> totalLength,
   perSegmentLength |-> RDiv(totalLength, SegmentSizeArg(a)),
   isOnSecondarySpan |-> TRUE,
   x |-> R(0), i |-> 0]

\* getTwoSpanUnequalXValues(beam, segmentSize) up to the first test of the loop condition
getTwoSpanUnequalXValuesEnter(b, a) ==
  LET totalLength == RAdd(b.primarySpan, b.secondarySpan) IN
  [fn |-> "getTwoSpanUnequalXValues", pc |-> "loop",
   xValues |-> <<>>,
   totalLength |-> totalLength,
   perSegmentLength |-> RDiv(totalLength, SegmentSizeArg(a)),
   isOnSecondarySpan |-> FALSE,
   x |-> R(0), i |-> 0]

\* getTwoSpanUnequalXValuesBody whose second crossing test switches to the
\* secondary span without putting x back on the primary span's end
getTwoSpanUnequalXValuesBodyNoRestart(f, b) ==
  IF f.i = 0
  THEN [f EXCEPT !.xValues = Append(@, XValue(R(0), TRUE)), !.i = @ + 1]
  ELSE
    LET previousX == PreviousX(f.xValues, f.i)
        x1 == RAdd(previousX, f.perSegmentLength)
        x2 == IF RGt(x1, f.totalLength) THEN f.totalLength ELSE x1
    IN
    IF f.isOnSecondarySpan
    THEN [f EXCEPT !.x = x2, !.xValues = Append(@, XValue(x2, FALSE)), !.i = @ + 1]
    ELSE
      LET isMoreLengthThanPrimarySpan == RGt(x2, b.primarySpan)
          isPreviousIsSameAsPrimarySpan == REq(previousX, b.primarySpan)
          x3 == IF isMoreLengthThanPrimarySpan /\ ~isPreviousIsSameAsPrimarySpan
                THEN b.primarySpan ELSE x2
          crossing == isMoreLengthThanPrimarySpan /\ isPreviousIsSameAsPrimarySpan
          onSecondary == IF crossing THEN TRUE ELSE f.isOnSecondarySpan
          x5 == IF RGt(x3, f.totalLength) THEN f.totalLength ELSE x3
      IN [f EXCEPT !.x = x5,
                   !.isOnSecondarySpan = onSecondary,
                   !.xValues = Append(@, XValue(x5, ~onSecondary)),
                   !.i = @ + 1]

\* getTwoSpanUnequalXValuesBody whose secondary-span branch steps by half a
\* segment length
getTwoSpanUnequalXValuesBodyHalfStep(f, b) ==
  IF f.i = 0
  THEN [f EXCEPT !.xValues = Append(@, XValue(R(0), TRUE)), !.i = @ + 1]
  ELSE
    LET previousX == PreviousX(f.xValues, f.i)
        x1 == RAdd(previousX, f.perSegmentLength)
        x2 == IF RGt(x1, f.totalLength) THEN f.totalLength ELSE x1
    IN
    IF f.isOnSecondarySpan
    THEN LET h1 == RAdd(previousX, RDiv(f.perSegmentLength, R(2)))
             h2 == IF RGt(h1, f.totalLength) THEN f.totalLength ELSE h1
         IN [f EXCEPT !.x = h2, !.xValues = Append(@, XValue(h2, FALSE)), !.i = @ + 1]
    ELSE
      LET isMoreLengthThanPrimarySpan == RGt(x2, b.primarySpan)
          isPreviousIsSameAsPrimarySpan == REq(previousX, b.primarySpan)
          x3 == IF isMoreLengthThanPrimarySpan /\ ~isPreviousIsSameAsPrimarySpan
                THEN b.primarySpan ELSE x2
          crossing == isMoreLengthThanPrimarySpan /\ isPreviousIsSameAsPrimarySpan
          x4 == IF crossing THEN b.primarySpan ELSE x3
          onSecondary == IF crossing THEN TRUE ELSE f.isOnSecondarySpan
          x5 == IF RGt(x4, f.totalLength) THEN f.totalLength ELSE x4
      IN [f EXCEPT !.x = x5,
                   !.isOnSecondarySpan = onSecondary,
                   !.xValues = Append(@, XValue(x5, ~onSecondary)),
                   !.i = @ + 1]

\* getTwoSpanUnequalXValuesBody whose secondary-span branch tags its samples
\* isPrimarySpan = true, as the simply-supported loop does
getTwoSpanUnequalXValuesBodyAllPrimary(f, b) ==
  IF f.i = 0
  THEN [f EXCEPT !.xValues = Append(@, XValue(R(0), TRUE)), !.i = @ + 1]
  ELSE
    LET previousX == PreviousX(f.xValues, f.i)
        x1 == RAdd(previousX, f.perSegmentLength)
        x2 == IF RGt(x1, f.totalLength) THEN f.totalLength ELSE x1
    IN
    IF f.isOnSecondarySpan
    THEN [f EXCEPT !.x = x2, !.xValues = Append(@, XValue(x2, TRUE)), !.i = @ + 1]
    ELSE
      LET isMoreLengthThanPrimarySpan == RGt(x2, b.primarySpan)
          isPreviousIsSameAsPrimarySpan == REq(previousX, b.primarySpan)
          x3 == IF isMoreLengthThanPrimarySpan /\ ~isPreviousIsSameAsPrimarySpan
                THEN b.primarySpan ELSE x2
          crossing == isMoreLengthThanPrimarySpan /\ isPreviousIsSameAsPrimarySpan
          x4 == IF crossing THEN b.primarySpan ELSE x3
          onSecondary == IF crossing THEN TRUE ELSE f.isOnSecondarySpan
          x5 == IF RGt(x4, f.totalLength) THEN f.totalLength ELSE x4
      IN [f EXCEPT !.x = x5,
                   !.isOnSecondarySpan = onSecondary,
                   !.xValues = Append(@, XValue(x5, ~onSecondary)),
                   !.i = @ + 1]

\* one iteration of the loop of getTwoSpanUnequalXValues, with its i++
getTwoSpanUnequalXValuesBody(f, b) ==
  IF f.i = 0
  THEN [f EXCEPT !.xValues = Append(@, XValue(R(0), TRUE)), !.i = @ + 1]
  ELSE
    LET previousX == PreviousX(f.xValues, f.i)
        x1 == RAdd(previousX, f.perSegmentLength)
        x2 == IF RGt(x1, f.totalLength) THEN f.totalLength ELSE x1
    IN
    IF f.isOnSecondarySpan
    THEN [f EXCEPT !.x = x2, !.xValues = Append(@, XValue(x2, FALSE)), !.i = @ + 1]
    ELSE
      LET isMoreLengthThanPrimarySpan == RGt(x2, b.primarySpan)
          isPreviousIsSameAsPrimarySpan == REq(previousX, b.primarySpan)
          x3 == IF isMoreLengthThanPrimarySpan /\ ~isPreviousIsSameAsPrimarySpan
                THEN b.primarySpan ELSE x2
          crossing == isMoreLengthThanPrimarySpan /\ isPreviousIsSameAsPrimarySpan
          x4 == IF crossing THEN b.primarySpan ELSE x3
          onSecondary == IF crossing THEN TRUE ELSE f.isOnSecondarySpan
          x5 == IF RGt(x4, f.totalLength) THEN f.totalLength ELSE x4
      IN [f EXCEPT !.x = x5,
                   !.isOnSecondarySpan = onSecondary,
                   !.xValues = Append(@, XValue(x5, ~onSecondary)),
                   !.i = @ + 1]

\* the loop condition x < totalLength
LoopCondition(f) == RLt(f.x, f.totalLength)

\* the loop of a sampler run to its end: the frame when the loop condition fails
RECURSIVE SimplyLoopRun(_)
SimplyLoopRun(f) ==
  IF LoopCondition(f) THEN SimplyLoopRun(getSimplyXValuesBody(f)) ELSE f

RECURSIVE TwoSpanUnequalLoopRun(_, _)
TwoSpanUnequalLoopRun(f, b) ==
  IF LoopCondition(f) THEN TwoSpanUnequalLoopRun(getTwoSpanUnequalXValuesBody(f, b), b)
  ELSE f

\* getSimplyXValues(beam, segmentSize) as a whole: the frame at its return
getSimplyXValues(b, a) ==
  [SimplyLoopRun(getSimplyXValuesEnter(b, a)) EXCEPT !.pc = "returned"]

\* getTwoSpanUnequalXValues(beam, segmentSize) as a whole: the frame at its return
getTwoSpanUnequalXValues(b, a) ==
  [TwoSpanUnequalLoopRun(getTwoSpanUnequalXValuesEnter(b, a), b) EXCEPT !.pc = "returned"]

\* the sampler call of plot: by the condition, simply-supported or two-span
PlotXValues(data, a) ==
  IF data.condition = "simply-supported"
  THEN getSimplyXValues(data.beam, a)
  ELSE getTwoSpanUnequalXValues(data.beam, a)

\* the arguments plot calls the equation with for the sample xv:
\* equation(x.value) when simply-supported, else equation(x.value, x.isPrimarySpan)
\* PlotArgs that never passes the isPrimarySpan tag
PlotArgsNoFlag(data, xv) == <<xv.value>>

PlotArgs(data, xv) ==
  IF data.condition = "simply-supported" THEN <<xv.value>>
  ELSE <<xv.value, xv.isPrimarySpan>>

\* xValues.map(...): the equation's outcome on each sample, in order
PlotResults(data, xValues) ==
  [k \in 1..Len(xValues) |-> Call(data.equation, data.beam, PlotArgs(data, xValues[k]))]

\* what plot leaves in the chart's dataset: the mapped points, or the error of the
\* first call that throws, which ends plot
plot(data, xValues) ==
  LET results == PlotResults(data, xValues)
      thrown == {k \in 1..Len(results) : results[k].kind = "throw"}
  IN IF thrown = {} THEN [kind |-> "data", data |-> results]
     ELSE results[CHOOSE k \in thrown : \A j \in thrown : k <= j]

\* what the equation calls of plot write with console.log, in order, up to the
\* call that throws
RECURSIVE PlotLog(_, _, _)
PlotLog(data, xValues, k) ==
  IF k > Len(xValues) THEN <<>>
  ELSE LET a == PlotArgs(data, xValues[k]) IN
       IF Call(data.equation, data.beam, a).kind = "throw" THEN <<>>
       ELSE CallLog(data.equation, data.beam, a) \o PlotLog(data, xValues, k + 1)

(***************************************************************************)
(* Inputs.                                                                 *)
(***************************************************************************)
Materials == {Material(R(2000000000), R(2))}

\* the two worked scenarios of the design document
ScenarioBeams ==
  {Beam(R(6), R(0), Material(R(1000000000), R(1))),
   Beam(R(4), R(6), Material(R(1000000000), R(1)))}

Beams ==
  {Beam(R(a), R(b), m) : a \in 1..MaxSpan, b \in 0..MaxSpan, m \in Materials}
    \cup ScenarioBeams

Loads == {R(w) : w \in 0..MaxLoad} \cup {R(5), R(10)}

Conditions ==
  {"simply-supported", "two-span-unequal", "", "cantilever", "constructor"}

\* ceiling of a finite number
Ceil(a) == (a[1] + a[2] - 1) \div a[2]

\* the positions an equation of the beam is evaluated at: the multiples of 1/XDen
\* from -1 to one past the end of the beam
EvalPoints(beam) ==
  {Norm(k, XDen) :
     k \in (-XDen)..(XDen * (Ceil(RAdd(beam.primarySpan, beam.secondarySpan)) + 1))}

\* the argument lists of a call: equation(x), equation(x, true), equation(x, false)
ArgLists(beam) ==
  {<<p>> : p \in EvalPoints(beam)}
    \cup {<<p, f>> : p \in EvalPoints(beam), f \in BOOLEAN}

(***************************************************************************)
(* State.                                                                  *)
(***************************************************************************)
VARIABLES
  beam,      \* the Beam the caller built
  options,   \* BeamAnalysis.options
  analyzer,  \* BeamAnalysis.analyzer, the registry
  request,   \* the last call of getDeflection/getBendingMoment/getShearForce
  analysis,  \* what that call produced
  args,      \* the argument list of the last call of analysis.equation
  result,    \* what that call produced
  sampler,   \* the running or returned call of an AnalysisPlotter sampler
  console,   \* what the last equation call, or the last plot, wrote with console.log
  chart      \* what the last plot left in the chart's dataset

vars ==
  <<beam, options, analyzer, request, analysis, args, result, sampler, console, chart>>

None == [kind |-> "none"]

Init ==
  /\ beam \in Beams
  /\ options = NewOptions
  /\ analyzer = NewAnalyzer
  /\ request = None
  /\ analysis = None
  /\ args = <<>>
  /\ result = None
  /\ sampler = [pc |-> "idle"]
  /\ console = <<>>
  /\ chart = None

(***************************************************************************)
(* The caller's operations on BeamAnalysis and on an equation.             *)
(***************************************************************************)
GetDeflection(load, condition) ==
  /\ request' = [kind |-> "call", method |-> "getDeflection", load |-> load, condition |-> condition]
  /\ analysis' = getDeflection(analyzer, beam, load, condition)
  /\ args' = <<>>
  /\ result' = None
  /\ console' = <<>>
  /\ UNCHANGED <<beam, options, analyzer, sampler, chart>>

GetBendingMoment(load, condition) ==
  /\ request' = [kind |-> "call", method |-> "getBendingMoment", load |-> load, condition |-> condition]
  /\ analysis' = getBendingMoment(analyzer, beam, load, condition)
  /\ args' = <<>>
  /\ result' = None
  /\ console' = <<>>
  /\ UNCHANGED <<beam, options, analyzer, sampler, chart>>

GetShearForce(load, condition) ==
  /\ request' = [kind |-> "call", method |-> "getShearForce", load |-> load, condition |-> condition]
  /\ analysis' = getShearForce(analyzer, beam, load, condition)
  /\ args' = <<>>
  /\ result' = None
  /\ console' = <<>>
  /\ UNCHANGED <<beam, options, analyzer, sampler, chart>>

\* analysis.equation(...a)
Evaluate(a) ==
  /\ analysis.kind = "return"
  /\ args' = a
  /\ result' = Call(analysis.equation, beam, a)
  /\ console' = CallLog(analysis.equation, beam, a)
  /\ UNCHANGED <<beam, options, analyzer, request, analysis, sampler, chart>>

(***************************************************************************)
(* The caller's operations on the samplers.                                *)
(***************************************************************************)
\* the argument lists after the beam: (beam) and (beam, segmentSize)
SegmentArgLists == {<<>>} \cup {<<R(n)>> : n \in 1..MaxSegments}

(***************************************************************************)
(* A client assigns beam.primarySpan.  Beam's fields are public and        *)
(* nothing copies the beam: the result of an analysis holds the very       *)
(* object the client passed, and the equations read it when called.        *)
(***************************************************************************)
PrimarySpans == {R(a) : a \in 1..MaxSpan}

SetPrimarySpan(v) ==
  /\ beam' = [beam EXCEPT !.primarySpan = v]
  /\ analysis' = IF analysis.kind = "return"
                 THEN [analysis EXCEPT !.beam = beam']
                 ELSE analysis
  /\ UNCHANGED <<options, analyzer, request, args, result, sampler, console, chart>>

CallGetSimplyXValues(a) ==
  /\ sampler.pc \in {"idle", "returned"}
  /\ sampler' = getSimplyXValuesEnter(beam, a)
  /\ UNCHANGED <<beam, options, analyzer, request, analysis, args, result, console, chart>>

CallGetTwoSpanUnequalXValues(a) ==
  /\ sampler.pc \in {"idle", "returned"}
  /\ sampler' = getTwoSpanUnequalXValuesEnter(beam, a)
  /\ UNCHANGED <<beam, options, analyzer, request, analysis, args, result, console, chart>>

SimplyLoop ==
  /\ sampler.pc = "loop"
  /\ sampler.fn = "getSimplyXValues"
  /\ LoopCondition(sampler)
  /\ sampler' = getSimplyXValuesBody(sampler)
  /\ UNCHANGED <<beam, options, analyzer, request, analysis, args, result, console, chart>>

TwoSpanUnequalLoop ==
  /\ sampler.pc = "loop"
  /\ sampler.fn = "getTwoSpanUnequalXValues"
  /\ LoopCondition(sampler)
  /\ sampler' = getTwoSpanUnequalXValuesBody(sampler, beam)
  /\ UNCHANGED <<beam, options, analyzer, request, analysis, args, result, console, chart>>

\* the loop condition fails: return xValues
SamplerReturn ==
  /\ sampler.pc = "loop"
  /\ ~LoopCondition(sampler)
  /\ sampler' = [sampler EXCEPT !.pc = "returned"]
  /\ UNCHANGED <<beam, options, analyzer, request, analysis, args, result, console, chart>>

(***************************************************************************)
(* AnalysisPlotter.plot on the analysis in hand.  plot itself calls the    *)
(* sampler with the beam alone (a = <<>>, the default segment count); the  *)
(* other argument lists are the same mapping over a sampler call that      *)
(* passes a segment count.                                                 *)
(***************************************************************************)
Plot(a) ==
  /\ analysis.kind = "return"
  /\ sampler' = PlotXValues(analysis, a)
  /\ chart' = plot(analysis, sampler'.xValues)
  /\ console' = PlotLog(analysis, sampler'.xValues, 1)
  /\ UNCHANGED <<beam, options, analyzer, request, analysis, args, result>>

Next ==
  \/ \E load \in Loads, condition \in Conditions : GetDeflection(load, condition)
  \/ \E load \in Loads, condition \in Conditions : GetBendingMoment(load, condition)
  \/ \E load \in Loads, condition \in Conditions : GetShearForce(load, condition)
  \/ \E a \in ArgLists(beam) : Evaluate(a)

Spec == Init /\ [][Next]_vars

\* the conditions that name an analyzer, and the load of the sessions in which
\* the beam is changed between calls
RegisteredConditions == {"simply-supported", "two-span-unequal"}

MutationLoads == {R(5)}

MutationNext ==
  \/ \E load \in MutationLoads, condition \in RegisteredConditions :
       GetDeflection(load, condition)
  \/ \E load \in MutationLoads, condition \in RegisteredConditions :
       GetBendingMoment(load, condition)
  \/ \E load \in MutationLoads, condition \in RegisteredConditions :
       GetShearForce(load, condition)
  \/ \E a \in ArgLists(beam) : Evaluate(a)
  \/ \E v \in PrimarySpans : SetPrimarySpan(v)

MutationSpec == Init /\ [][MutationNext]_vars

SamplerNext ==
  \/ \E a \in SegmentArgLists : CallGetSimplyXValues(a)
  \/ \E a \in SegmentArgLists : CallGetTwoSpanUnequalXValues(a)
  \/ SimplyLoop
  \/ TwoSpanUnequalLoop
  \/ SamplerReturn

SamplerSpec == Init /\ [][SamplerNext]_vars

\* the samplers are synchronous loops: a loop that can take its next step takes it
SamplerFairSpec ==
  SamplerSpec /\ WF_vars(SimplyLoop) /\ WF_vars(TwoSpanUnequalLoop) /\ WF_vars(SamplerReturn)

\* a session that requests analyses and then plots the one in hand, once or
\* more; it requests no further analysis after its first plot
PlotNext ==
  \/ /\ chart = None
     /\ \/ \E load \in Loads, condition \in Conditions : GetDeflection(load, condition)
        \/ \E load \in Loads, condition \in Conditions : GetBendingMoment(load, condition)
        \/ \E load \in Loads, condition \in Conditions : GetShearForce(load, condition)
  \/ \E a \in SegmentArgLists : Plot(a)

PlotSpec == Init /\ [][PlotNext]_vars

(***************************************************************************)
(* Properties of the samplers (checked under SamplerSpec).                 *)
(***************************************************************************)
\* getTwoSpanUnequalXValues has returned for a beam with a secondary span
TwoSpanReturned ==
  /\ sampler.pc = "returned"
  /\ sampler.fn = "getTwoSpanUnequalXValues"
  /\ RGt(beam.secondarySpan, R(0))

\* the indices of the returned samples whose value is the primary span
AtSupport == {k \in 1..Len(sampler.xValues) : sampler.xValues[k].value = beam.primarySpan}

\* C1: for L1 > 0, L2 > 0 and a segment count >= 1, the sequence returned by
\* getTwoSpanUnequalXValues holds the value L1 exactly twice, at adjacent places,
\* the first tagged isPrimarySpan = true and the second isPrimarySpan = false.
C1_SupportTwiceAdjacent ==
  TwoSpanReturned =>
    /\ Cardinality(AtSupport) = 2
    /\ \E k \in AtSupport :
         /\ AtSupport = {k, k + 1}
         /\ sampler.xValues[k].isPrimarySpan = TRUE
         /\ sampler.xValues[k + 1].isPrimarySpan = FALSE

\* a returned two-span sequence in which the step that crossed L1 was clamped to it
C1_Witness ==
  /\ TwoSpanReturned
  /\ \E k \in 2..(Len(sampler.xValues) - 1) :
       /\ sampler.xValues[k].value = beam.primarySpan
       /\ sampler.xValues[k + 1].value = beam.primarySpan
       /\ RLt(RSub(beam.primarySpan, sampler.xValues[k - 1].value),
              sampler.perSegmentLength)

SimplyReturned ==
  /\ sampler.pc = "returned"
  /\ sampler.fn = "getSimplyXValues"

\* C2: for L > 0 and a segment count >= 1, the sequence returned by
\* getSimplyXValues starts at 0, is strictly increasing, has every sample tagged
\* isPrimarySpan = true, and ends exactly at L.
C2_SimplySequence ==
  SimplyReturned =>
    LET xs == sampler.xValues IN
    /\ Len(xs) >= 1
    /\ xs[1].value = R(0)
    /\ \A k \in 1..(Len(xs) - 1) : RLt(xs[k].value, xs[k + 1].value)
    /\ \A k \in 1..Len(xs) : xs[k].isPrimarySpan = TRUE
    /\ xs[Len(xs)].value = beam.primarySpan

\* a returned simply-supported sequence with interior samples
C2_Witness ==
  /\ SimplyReturned
  /\ Len(sampler.xValues) >= 4
  /\ sampler.xValues[Len(sampler.xValues)].value = beam.primarySpan

(***************************************************************************)
(* Properties of the registry and of the equations (checked under Spec).   *)
(***************************************************************************)
SpanL1 == beam.primarySpan

SpanL2 == beam.secondarySpan

\* the registry returned an equation and the equation has been called
Evaluated == analysis.kind = "return" /\ Len(args) >= 1

\* the equation in hand is the one named
IsEquation(fn) == analysis.kind = "return" /\ analysis.equation.fn = fn

\* the position and the load of the call in hand
ArgX == args[1]

LoadW == analysis.load

\* the reactions as the design states them, from the span lengths and the load
ExpM1(a, b, w) ==
  RNeg(RDiv(RAdd(RMul(w, Pow3(b)), RMul(w, Pow3(a))), RMul(R(8), RAdd(a, b))))

ExpR1(a, b, w) == RAdd(RDiv(ExpM1(a, b, w), a), RDiv(RMul(w, a), R(2)))

ExpR3(a, b, w) == RAdd(RDiv(ExpM1(a, b, w), b), RDiv(RMul(w, b), R(2)))

ExpR2(a, b, w) == RSub(RSub(RMul(w, RAdd(a, b)), ExpR1(a, b, w)), ExpR3(a, b, w))

\* the length of the domain under the condition of the analysis in hand
TotalLengthOf ==
  IF analysis.condition = "simply-supported" THEN SpanL1 ELSE RAdd(SpanL1, SpanL2)

\* C3: each of the six equations, called with x < 0 or x > totalLength (L for
\* simply-supported, L1 + L2 for two-span), throws an error and returns no {x, y}.
C3_OutOfDomainThrows ==
  (Evaluated /\ (RLt(ArgX, R(0)) \/ RGt(ArgX, TotalLengthOf))) =>
    (result.kind = "throw" /\ result.name = "Error")

\* the two-span deflection equation was called past the end of the beam
C3_Witness ==
  /\ Evaluated
  /\ IsEquation("twoSpanUnequal.deflection")
  /\ RGt(ArgX, RAdd(SpanL1, SpanL2))
  /\ result.kind = "throw"

\* C4 (as claimed): getDeflection, getBendingMoment and getShearForce throw the
\* 'Invalid condition' error for every condition that is not one of the two
\* registered names, names such as 'constructor' included.
C4_UnregisteredIsInvalidCondition ==
  (request.kind = "call"
     /\ request.condition \notin {"simply-supported", "two-span-unequal"}) =>
    analysis = Throw("Error", "Invalid condition")

\* the two-span shear force equation was called at x = L1 with no flag
ShearAtSupportNoFlag ==
  /\ Evaluated
  /\ IsEquation("twoSpanUnequal.shearForce")
  /\ RGt(SpanL2, R(0))
  /\ Len(args) = 1
  /\ ArgX = SpanL1

TwoSpanShear == IsEquation("twoSpanUnequal.shearForce") /\ RGt(SpanL2, R(0))

\* C6: at x = L1 the two-span shear force equation returns R1 - w*L1 when
\* isPrimarySpan is true and R1 + R2 - w*L1 when it is false, so the two values
\* differ by exactly R2, and are different whenever R2 # 0.
C6_JumpAtSupport ==
  /\ (TwoSpanShear /\ Len(args) = 2 /\ ArgX = SpanL1) =>
       result = Return(SpanL1,
                  IF args[2]
                  THEN RSub(ExpR1(SpanL1, SpanL2, LoadW), RMul(LoadW, SpanL1))
                  ELSE RSub(RAdd(ExpR1(SpanL1, SpanL2, LoadW),
                                 ExpR2(SpanL1, SpanL2, LoadW)),
                            RMul(LoadW, SpanL1)))
  /\ TwoSpanShear =>
       LET left == Call(analysis.equation, beam, <<SpanL1, TRUE>>)
           right == Call(analysis.equation, beam, <<SpanL1, FALSE>>)
       IN /\ left.kind = "return" /\ right.kind = "return"
          /\ RSub(right.y, left.y) = ExpR2(SpanL1, SpanL2, LoadW)
          /\ (ExpR2(SpanL1, SpanL2, LoadW) # R(0) => left.y # right.y)

\* the left-side call at the support of a loaded beam
C6_Witness ==
  /\ TwoSpanShear
  /\ args = <<SpanL1, TRUE>>
  /\ result.kind = "return"
  /\ ExpR2(SpanL1, SpanL2, LoadW) # R(0)

\* C7: two-span ShearForce(0) = R1 and ShearForce(L1 + L2) = R1 + R2 - w*(L1 + L2);
\* simply-supported ShearForce(0) = w*L/2 and ShearForce(L) = -w*L/2.
C7_ShearAtEnds ==
  /\ (TwoSpanShear /\ Evaluated /\ ArgX = R(0)) =>
       result = Return(R(0), ExpR1(SpanL1, SpanL2, LoadW))
  /\ (TwoSpanShear /\ Evaluated /\ ArgX = RAdd(SpanL1, SpanL2)) =>
       result = Return(RAdd(SpanL1, SpanL2),
                  RSub(RAdd(ExpR1(SpanL1, SpanL2, LoadW), ExpR2(SpanL1, SpanL2, LoadW)),
                       RMul(LoadW, RAdd(SpanL1, SpanL2))))
  /\ (IsEquation("simplySupported.shearForce") /\ Evaluated /\ ArgX = R(0)) =>
       result = Return(R(0), RDiv(RMul(LoadW, SpanL1), R(2)))
  /\ (IsEquation("simplySupported.shearForce") /\ Evaluated /\ ArgX = SpanL1) =>
       result = Return(SpanL1, RNeg(RDiv(RMul(LoadW, SpanL1), R(2))))

\* the scenario Beam(6, 0), load 10, simply-supported: ShearForce(6) = -30
C7_Witness ==
  /\ IsEquation("simplySupported.shearForce")
  /\ SpanL1 = R(6)
  /\ LoadW = R(10)
  /\ args = <<R(6)>>
  /\ result = Return(R(6), R(-30))

\* a bending moment equation is in hand
IsBending ==
  IsEquation("simplySupported.bendingMoment") \/ IsEquation("twoSpanUnequal.bendingMoment")

\* C8: the bending moment equation returns 0 at x = 0 and at x = totalLength under
\* both conditions; for two-span the right span formula itself is 0 at x = L1 + L2.
C8_BendingZeroAtEnds ==
  /\ (IsBending /\ Evaluated /\ ArgX = R(0)) => result = Return(R(0), R(0))
  /\ (IsBending /\ Evaluated /\ ArgX = TotalLengthOf) =>
       result = Return(TotalLengthOf, R(0))
  /\ (IsEquation("twoSpanUnequal.bendingMoment") /\ RGt(SpanL2, R(0))) =>
       BendingRightSpan(analysis.equation, beam, RAdd(SpanL1, SpanL2)) = R(0)

\* the two-span bending moment of a loaded beam called at its right end
C8_Witness ==
  /\ IsEquation("twoSpanUnequal.bendingMoment")
  /\ RGt(SpanL2, R(0))
  /\ LoadW # R(0)
  /\ Evaluated
  /\ ArgX = RAdd(SpanL1, SpanL2)
  /\ result.kind = "return"

\* C9: the two-span bending moment is continuous at x = L1: the left span formula
\* and the right span formula agree there, and that value is what the equation
\* returns at x = L1 whatever the isPrimarySpan flag.
C9_BendingContinuous ==
  (IsEquation("twoSpanUnequal.bendingMoment") /\ RGt(SpanL2, R(0))) =>
    /\ BendingLeftSpan(analysis.equation, SpanL1)
         = BendingRightSpan(analysis.equation, beam, SpanL1)
    /\ BendingLeftSpan(analysis.equation, SpanL1)
         = RNeg(RSub(RMul(ExpR1(SpanL1, SpanL2, LoadW), SpanL1),
                     RDiv(RMul(LoadW, Pow2(SpanL1)), R(2))))
    /\ (Evaluated /\ ArgX = SpanL1) =>
         result = Return(SpanL1, BendingLeftSpan(analysis.equation, SpanL1))

\* the two-span bending moment of a loaded beam called at the support with a flag
C9_Witness ==
  /\ IsEquation("twoSpanUnequal.bendingMoment")
  /\ RGt(SpanL2, R(0))
  /\ LoadW # R(0)
  /\ args = <<SpanL1, TRUE>>
  /\ result.kind = "return"

\* an equation of the two-span analyzer is in hand, for a beam with a secondary span
IsTwoSpan ==
  /\ analysis.kind = "return"
  /\ analysis.condition = "two-span-unequal"
  /\ RGt(SpanL2, R(0))

C13_SimplyBending ==
  (IsEquation("simplySupported.bendingMoment") /\ Evaluated
     /\ RLe(R(0), ArgX) /\ RLe(ArgX, SpanL1)) =>
    /\ result = Return(ArgX, RNeg(RMul(RDiv(RMul(LoadW, ArgX), R(2)), RSub(SpanL1, ArgX))))
    /\ (SpanL1 = R(6) /\ LoadW = R(10) /\ ArgX = R(3)) => result.y = R(-45)

\* the scenario Beam(6, 0), load 10, simply-supported: BendingMoment(3) = -45
C13_Witness ==
  /\ IsEquation("simplySupported.bendingMoment")
  /\ SpanL1 = R(6)
  /\ LoadW = R(10)
  /\ Evaluated
  /\ ArgX = R(3)
  /\ result = Return(R(3), R(-45))

\* C14: the two-span shear force equation returns R1 - w*x for 0 <= x < L1 and
\* R1 + R2 - w*x for L1 < x <= L1 + L2, whatever the isPrimarySpan flag.
C14_ShearPiecewise ==
  (TwoSpanShear /\ Evaluated) =>
    /\ (RLe(R(0), ArgX) /\ RLt(ArgX, SpanL1)) =>
         result = Return(ArgX, RSub(ExpR1(SpanL1, SpanL2, LoadW), RMul(LoadW, ArgX)))
    /\ (RLt(SpanL1, ArgX) /\ RLe(ArgX, RAdd(SpanL1, SpanL2))) =>
         result = Return(ArgX,
                    RSub(RAdd(ExpR1(SpanL1, SpanL2, LoadW), ExpR2(SpanL1, SpanL2, LoadW)),
                         RMul(LoadW, ArgX)))

\* a call strictly inside the right span of a loaded beam, flagged as primary span
C14_Witness ==
  /\ TwoSpanShear
  /\ LoadW # R(0)
  /\ Len(args) = 2
  /\ args[2] = TRUE
  /\ RLt(SpanL1, ArgX)
  /\ RLt(ArgX, RAdd(SpanL1, SpanL2))
  /\ result.kind = "return"

\* C15: the two-span bending moment equation returns -(R1*x - w*x^2/2) for x in
\* [0, L1] and -(R1*x + R2*(x - L1) - w*x^2/2) for x in (L1, L1 + L2].
C15_BendingPiecewise ==
  (IsEquation("twoSpanUnequal.bendingMoment") /\ RGt(SpanL2, R(0)) /\ Evaluated) =>
    /\ (RLe(R(0), ArgX) /\ RLe(ArgX, SpanL1)) =>
         result = Return(ArgX,
                    RNeg(RSub(RMul(ExpR1(SpanL1, SpanL2, LoadW), ArgX),
                              RDiv(RMul(LoadW, Pow2(ArgX)), R(2)))))
    /\ (RLt(SpanL1, ArgX) /\ RLe(ArgX, RAdd(SpanL1, SpanL2))) =>
         result = Return(ArgX,
                    RNeg(RSub(RAdd(RMul(ExpR1(SpanL1, SpanL2, LoadW), ArgX),
                                   RMul(ExpR2(SpanL1, SpanL2, LoadW), RSub(ArgX, SpanL1))),
                              RDiv(RMul(LoadW, Pow2(ArgX)), R(2)))))

\* a call strictly inside the left span of a loaded beam
C15_Witness ==
  /\ IsEquation("twoSpanUnequal.bendingMoment")
  /\ RGt(SpanL2, R(0))
  /\ LoadW # R(0)
  /\ Evaluated
  /\ RLt(R(0), ArgX)
  /\ RLt(ArgX, SpanL1)
  /\ result.kind = "return"

\* the equation function each method derives under each registered condition
DerivedFn(method, condition) ==
  (IF condition = "simply-supported" THEN "simplySupported" ELSE "twoSpanUnequal")
    \o (IF method = "getDeflection" THEN ".deflection"
        ELSE IF method = "getBendingMoment" THEN ".bendingMoment"
        ELSE ".shearForce")

\* C16: for a registered condition the three methods return a result whose
\* condition, beam and load are the arguments passed and whose equation is the one
\* the analyzer registered for that condition derives from those arguments; the
\* call leaves the registry (its analyzers and options) as constructed.
C16_ResultOfArguments ==
  /\ analyzer = NewAnalyzer
  /\ options = NewOptions
  /\ (request.kind = "call"
        /\ request.condition \in {"simply-supported", "two-span-unequal"}) =>
       /\ analysis.kind = "return"
       /\ analysis.condition = request.condition
       /\ analysis.beam = beam
       /\ analysis.load = request.load
       /\ analysis.equation.fn = DerivedFn(request.method, request.condition)
       /\ analysis.equation.load = request.load

\* a two-span result in hand, after a call with a load that is not the default
C16_Witness ==
  /\ request.kind = "call"
  /\ request.method = "getShearForce"
  /\ request.condition = "two-span-unequal"
  /\ request.load = R(5)
  /\ analysis.kind = "return"
  /\ analysis.condition = "two-span-unequal"

\* C20 (as claimed): calling an equation changes nothing in the beam, the load or
\* the registry and writes no output.
C20_CallWritesNothing ==
  Evaluated =>
    /\ console = <<>>
    /\ analyzer = NewAnalyzer
    /\ options = NewOptions
    /\ analysis.beam = beam
    /\ analysis.load = request.load

(***************************************************************************)
(* Properties of the samplers' tagging and termination (checked under      *)
(* SamplerSpec and SamplerFairSpec).                                       *)
(***************************************************************************)

\* C18: for L1 > 0 and L2 > 0 the sequence returned by getTwoSpanUnequalXValues
\* starts at 0, never decreases, tags every value below L1 isPrimarySpan = true and
\* every value above L1 isPrimarySpan = false, has no true tag after a false one,
\* and ends at L1 + L2.
C18_TwoSpanSequence ==
  TwoSpanReturned =>
    LET xs == sampler.xValues IN
    /\ Len(xs) >= 1
    /\ xs[1].value = R(0)
    /\ \A k \in 1..(Len(xs) - 1) : RLe(xs[k].value, xs[k + 1].value)
    /\ \A k \in 1..Len(xs) :
         /\ RLt(xs[k].value, beam.primarySpan) => xs[k].isPrimarySpan = TRUE
         /\ RGt(xs[k].value, beam.primarySpan) => xs[k].isPrimarySpan = FALSE
    /\ \A j, k \in 1..Len(xs) :
         (j < k /\ xs[j].isPrimarySpan = FALSE) => xs[k].isPrimarySpan = FALSE
    /\ xs[Len(xs)].value = RAdd(beam.primarySpan, beam.secondarySpan)

\* a returned two-span sequence with samples strictly inside both spans
C18_Witness ==
  /\ TwoSpanReturned
  /\ \E k \in 1..Len(sampler.xValues) :
       /\ RLt(R(0), sampler.xValues[k].value)
       /\ RLt(sampler.xValues[k].value, beam.primarySpan)
  /\ \E k \in 1..Len(sampler.xValues) :
       /\ RGt(sampler.xValues[k].value, beam.primarySpan)
       /\ RLt(sampler.xValues[k].value, RAdd(beam.primarySpan, beam.secondarySpan))

\* one iteration of a sampler's loop
LoopIteration ==
  /\ sampler.pc = "loop"
  /\ sampler'.pc = "loop"
  /\ sampler'.fn = sampler.fn
  /\ sampler'.i = sampler.i + 1

\* the iteration of getTwoSpanUnequalXValues that emits L1 again, tagged false
ReEmitsSupport ==
  /\ sampler.fn = "getTwoSpanUnequalXValues"
  /\ sampler.x = beam.primarySpan
  /\ sampler'.x = beam.primarySpan
  /\ ~sampler.isOnSecondarySpan
  /\ sampler'.isOnSecondarySpan
  /\ sampler'.xValues[Len(sampler'.xValues)] = XValue(beam.primarySpan, FALSE)

\* the number of segments a sampler call was made with
SegmentCount(f) == RDiv(f.totalLength, f.perSegmentLength)

\* the loop is bounded and leaves x on the end of the beam, which no earlier
\* sample has reached
SamplerStops ==
  /\ sampler.pc # "idle" =>
       /\ RLe(sampler.x, sampler.totalLength)
       /\ RLe(R(Len(sampler.xValues)), RAdd(SegmentCount(sampler), R(3)))
  /\ sampler.pc = "returned" =>
       /\ sampler.x = sampler.totalLength
       /\ \A k \in 1..(Len(sampler.xValues) - 1) :
            RLt(sampler.xValues[k].value, sampler.totalLength)

\* C19 (as claimed): x increases on every iteration of either sampler except the
\* one iteration that emits L1 again.
C19_XIncreasesButReEmit ==
  [][LoopIteration => (RLt(sampler.x, sampler'.x) \/ ReEmitsSupport)]_vars

\* C19 (amended): for a segment count >= 1 and a positive total length both
\* samplers return a finite sequence: a started loop returns, within segment count
\* + 3 samples, with x on the end of the beam; x increases on every iteration
\* except the first one (i = 0, which emits 0 and leaves x at 0) and the one
\* iteration that emits L1 again, after which the sampler stays on the secondary
\* span.
C19_Terminates ==
  /\ []SamplerStops
  /\ [][LoopIteration =>
          /\ RLt(sampler.x, sampler'.x) \/ sampler.i = 0 \/ ReEmitsSupport
          /\ (sampler.fn = "getTwoSpanUnequalXValues" /\ sampler.isOnSecondarySpan)
               => sampler'.isOnSecondarySpan]_vars
  /\ (sampler.pc = "loop") ~> (sampler.pc = "returned")

\* a two-span call that has returned after emitting L1 twice
C19_Witness ==
  /\ sampler.pc = "returned"
  /\ sampler.fn = "getTwoSpanUnequalXValues"
  /\ sampler.isOnSecondarySpan
  /\ sampler.i >= 4
  /\ sampler.x = sampler.totalLength

(***************************************************************************)
(* Properties of plotting (checked under PlotSpec).                        *)
(***************************************************************************)

\* plot has run on an analysis of a beam whose spans the condition uses are positive
PlottedPositiveSpans ==
  /\ chart.kind # "none"
  /\ analysis.condition = "two-span-unequal" => RGt(SpanL2, R(0))

\* the end of the domain of the equations of the plotted condition
PlottedLength ==
  IF analysis.condition = "simply-supported" THEN SpanL1 ELSE RAdd(SpanL1, SpanL2)

\* C11: on a beam with positive spans every sample the matching sampler produces
\* lies in the domain of the equation: plotting raises no error, and the chart
\* holds one point per sample, at that sample's position.
C11_SamplesAccepted ==
  PlottedPositiveSpans =>
    /\ chart.kind = "data"
    /\ Len(chart.data) = Len(sampler.xValues)
    /\ \A k \in 1..Len(sampler.xValues) :
         /\ RLe(R(0), sampler.xValues[k].value)
         /\ RLe(sampler.xValues[k].value, PlottedLength)
         /\ chart.data[k].kind = "return"
         /\ chart.data[k].x = sampler.xValues[k].value

\* a plotted two-span deflection whose last sample is the end of the beam
C11_Witness ==
  /\ PlottedPositiveSpans
  /\ analysis.equation.fn = "twoSpanUnequal.deflection"
  /\ chart.kind = "data"
  /\ Len(chart.data) >= 5
  /\ chart.data[Len(chart.data)].x = RAdd(SpanL1, SpanL2)

\* plot has run on a two-span shear force analysis of a beam with L2 > 0
PlottedTwoSpanShear ==
  /\ chart.kind # "none"
  /\ analysis.equation.fn = "twoSpanUnequal.shearForce"
  /\ RGt(SpanL2, R(0))

\* C17: evaluating the two-span shear force equation over the two-span samples in
\* order, passing each sample's tag, yields at L1 first the left-hand limit
\* R1 - w*L1 and next the right-hand limit R1 + R2 - w*L1.
C17_BothLimitsInOrder ==
  PlottedTwoSpanShear =>
    /\ chart.kind = "data"
    /\ \E k \in 1..(Len(chart.data) - 1) :
         /\ AtSupport = {k, k + 1}
         /\ chart.data[k] =
              Return(SpanL1, RSub(ExpR1(SpanL1, SpanL2, analysis.load),
                                  RMul(analysis.load, SpanL1)))
         /\ chart.data[k + 1] =
              Return(SpanL1, RSub(RAdd(ExpR1(SpanL1, SpanL2, analysis.load),
                                       ExpR2(SpanL1, SpanL2, analysis.load)),
                                  RMul(analysis.load, SpanL1)))

\* plot's own sampling (ten segments) of a loaded beam: the two points at L1 differ
C17_Witness ==
  /\ PlottedTwoSpanShear
  /\ analysis.load # R(0)
  /\ SegmentCount(sampler) = R(DefaultSegmentSize)
  /\ chart.kind = "data"
  /\ \E k \in 1..(Len(chart.data) - 1) :
       /\ chart.data[k].x = SpanL1
       /\ chart.data[k + 1].x = SpanL1
       /\ RGt(chart.data[k + 1].y, chart.data[k].y)

(***************************************************************************)
(* Properties of the deflection and of the equilibrium of the reactions    *)
(* (checked under Spec).                                                   *)
(***************************************************************************)

\* the two-span deflection equation of a beam with L2 > 0 is in hand
TwoSpanDeflection == IsEquation("twoSpanUnequal.deflection") /\ RGt(SpanL2, R(0))

Mirror(b) == Beam(b.secondarySpan, b.primarySpan, b.material)

IsDeflection ==
  /\ \/ IsEquation("simplySupported.deflection")
     \/ TwoSpanDeflection
  /\ beam.material.EI # R(0)

\* the supports under the condition of the analysis in hand
Supports ==
  IF analysis.condition = "simply-supported" THEN {R(0), SpanL1}
  ELSE {R(0), SpanL1, RAdd(SpanL1, SpanL2)}

C26_VerticalEquilibrium ==
  /\ IsTwoSpan =>
       RAdd(RAdd(analysis.equation.r1, analysis.equation.r2), analysis.equation.r3)
         = RMul(LoadW, RAdd(SpanL1, SpanL2))
  /\ (TwoSpanShear /\ Evaluated /\ ArgX = RAdd(SpanL1, SpanL2)) =>
       result = Return(ArgX, RNeg(ExpR3(SpanL1, SpanL2, LoadW)))

\* the two-span shear force of a loaded beam called at its right end
C26_Witness ==
  /\ TwoSpanShear
  /\ LoadW # R(0)
  /\ Evaluated
  /\ ArgX = RAdd(SpanL1, SpanL2)
  /\ result.kind = "return"
  /\ result.y # R(0)

(***************************************************************************)
(* Properties of the positions the samplers return (checked under          *)
(* SamplerSpec).                                                           *)
(***************************************************************************)

\* getTwoSpanUnequalXValues has returned on a beam without a secondary span
TwoSpanReturnedNoSecondary ==
  /\ sampler.pc = "returned"
  /\ sampler.fn = "getTwoSpanUnequalXValues"
  /\ beam.secondarySpan = R(0)

\* C27: with secondarySpan = 0 the sequence returned by getTwoSpanUnequalXValues
\* ends with a sample of value L1 tagged isPrimarySpan = true, holds the value L1
\* once, and holds no sample tagged false.
C27_NoDuplicateWithoutSecondary ==
  TwoSpanReturnedNoSecondary =>
    LET xs == sampler.xValues IN
    /\ Len(xs) >= 1
    /\ xs[Len(xs)] = XValue(beam.primarySpan, TRUE)
    /\ AtSupport = {Len(xs)}
    /\ \A k \in 1..Len(xs) : xs[k].isPrimarySpan = TRUE

\* a returned sequence with interior samples on a beam without a secondary span
C27_Witness ==
  /\ TwoSpanReturnedNoSecondary
  /\ Len(sampler.xValues) >= 4
  /\ sampler.xValues[Len(sampler.xValues)].value = beam.primarySpan

\* C28: for L > 0 and n >= 1, getSimplyXValues(beam, n) returns n + 1 samples,
\* the k-th of them (k = 0..n) of value k*L/n.
C28_SimplyUniformGrid ==
  SimplyReturned =>
    LET xs == sampler.xValues
        n == SegmentCount(sampler)
    IN /\ R(Len(xs)) = RAdd(n, R(1))
       /\ \A k \in 0..(Len(xs) - 1) :
            xs[k + 1].value = RDiv(RMul(R(k), beam.primarySpan), n)
       /\ \A k \in 1..(Len(xs) - 1) :
            RSub(xs[k + 1].value, xs[k].value) = RDiv(beam.primarySpan, n)

\* a returned sequence of a call with three or more segments
C28_Witness ==
  /\ SimplyReturned
  /\ RGt(SegmentCount(sampler), R(2))
  /\ R(Len(sampler.xValues)) = RAdd(SegmentCount(sampler), R(1))

\* a is a whole multiple of the step s
IsMultiple(a, s) == RDiv(a, s)[2] = 1

\* floor of a finite non-negative number
Floor(a) == a[1] \div a[2]

\* the smaller of two numbers
RMin(a, b) == IF RLt(a, b) THEN a ELSE b

C29_WitnessOnGrid ==
  /\ TwoSpanReturned
  /\ IsMultiple(beam.primarySpan, sampler.perSegmentLength)
  /\ Len(sampler.xValues) >= 5

(***************************************************************************)
(* Inputs that are documented as ignored (checked under Spec).             *)
(***************************************************************************)

\* the result of the request in hand, made on the beam b instead
AnalysisOn(b) ==
  CASE request.method = "getDeflection" ->
         getDeflection(analyzer, b, request.load, request.condition)
    [] request.method = "getBendingMoment" ->
         getBendingMoment(analyzer, b, request.load, request.condition)
    [] request.method = "getShearForce" ->
         getShearForce(analyzer, b, request.load, request.condition)

\* the beams that differ from the session's beam in secondarySpan only
SecondarySpanVariants ==
  {[beam EXCEPT !.secondarySpan = R(b)] : b \in 0..(MaxSpan + 1)}

\* the call in hand repeated without the flag, with true and with false
FlagVariants == {<<ArgX>>, <<ArgX, TRUE>>, <<ArgX, FALSE>>}

\* C23: under simply-supported, a beam that differs only in secondarySpan and a
\* call that differs only in the isPrimarySpan argument return the same y for
\* every x in [0, L]; under two-span-unequal the isPrimarySpan argument changes
\* the result of no equation at any x, the shear force equation at exactly
\* x = L1 excepted.
C23_IgnoredInputs ==
  /\ (Evaluated /\ analysis.condition = "simply-supported"
        /\ RLe(R(0), ArgX) /\ RLe(ArgX, SpanL1)) =>
       /\ result.kind = "return"
       /\ \A b \in SecondarySpanVariants :
            Call(AnalysisOn(b).equation, b, args) = result
       /\ \A a \in FlagVariants : Call(analysis.equation, beam, a) = result
  /\ (Evaluated /\ IsTwoSpan
        /\ ~(IsEquation("twoSpanUnequal.shearForce") /\ ArgX = SpanL1)) =>
       \A a \in FlagVariants : Call(analysis.equation, beam, a) = result

\* a simply-supported call, flagged, on a loaded beam that has a secondary span
C23_Witness ==
  /\ Evaluated
  /\ analysis.condition = "simply-supported"
  /\ RGt(SpanL2, R(0))
  /\ LoadW # R(0)
  /\ Len(args) = 2
  /\ RLt(R(0), ArgX)
  /\ RLt(ArgX, SpanL1)
  /\ result.kind = "return"
  /\ result.y # R(0)

(***************************************************************************)
(* What an equation captures and what it reads from the beam when called   *)
(* (checked under MutationSpec).                                           *)
(***************************************************************************)

\* a step that calls one of the registry's methods
GetStep == beam' = beam /\ args' = <<>>

\* a step that calls the equation in hand
EvaluateStep ==
  /\ analysis.kind = "return"
  /\ analysis' = analysis
  /\ beam' = beam
  /\ Len(args') >= 1

\* the scalars an equation created on a beam of spans a, b under load w holds
CapturedAtCreation(eq, a, b, w) ==
  /\ eq.totalLength = RAdd(a, b)
  /\ eq.m1 = ExpM1(a, b, w)
  /\ eq.r1 = ExpR1(a, b, w)
  /\ eq.r3 = ExpR3(a, b, w)
  /\ eq.r2 = ExpR2(a, b, w)

\* the shear force the two-span function returns for the captured scalars of eq,
\* the position x and flag of a call, and the primary span p the beam has now
ShearFromCaptured(eq, p, a) ==
  LET x == a[1] IN
  IF RLt(x, R(0)) \/ RGt(x, eq.totalLength)
  THEN Throw("Error", "Invalid x value. Must be between 0 and total length")
  ELSE IF x = R(0) THEN Return(x, eq.r1)
  ELSE IF x = eq.totalLength
  THEN Return(x, RSub(RAdd(eq.r1, eq.r2), RMul(eq.load, x)))
  ELSE IF RLt(x, p) \/ (x = p /\ IsPrimarySpanArg(a))
  THEN Return(x, RSub(eq.r1, RMul(eq.load, x)))
  ELSE Return(x, RSub(RAdd(eq.r1, eq.r2), RMul(eq.load, x)))

CreationPrimarySpan == RSub(analysis.equation.totalLength, SpanL2)

SimplyEquationNow ==
  CASE request.method = "getDeflection" ->
         simplySupportedGetDeflectionEquation(beam, request.load)
    [] request.method = "getBendingMoment" ->
         simplySupportedGetBendingMomentEquation(beam, request.load)
    [] request.method = "getShearForce" ->
         simplySupportedGetShearForceEquation(beam, request.load)

====
